---- MODULE Spec2Model ----
(***************************************************************************)
(* Model of the schema diff engine (builder.Table.Diff), the table         *)
(* registry (builder.Tables) and the logging connection                    *)
(* (postgresqlconnector.loggerConn) of sqlx.                               *)
(***************************************************************************)
EXTENDS Integers, Sequences, FiniteSets, TLC

VARIABLES cur, prev, pkName, runs, pc,
          l, vals, tables, models, hist,
          calls

vars == <<cur, prev, pkName, runs, pc, l, vals, tables, models, hist, calls>>
diffVars == <<cur, prev, pkName, runs, pc>>
regVars == <<l, vals, tables, models, hist>>

(***************************************************************************)
(* Bounds                                                                  *)
(***************************************************************************)
\* number of Diff invocations on the same pair of tables
MaxRuns == 2
\* number of keys declared on one table
MaxKeys == 2
\* number of registry operations in one history
MaxOps == 3
\* number of statements sent over one connection
MaxCalls == 3

(***************************************************************************)
(* Generic helpers                                                         *)
(***************************************************************************)
Range(s) == {s[i] : i \in 1..Len(s)}

\* sequences over S of length 0..n whose members have pairwise distinct Name
RECURSIVE NamedSeqs(_, _)
NamedSeqs(S, n) ==
    IF n = 0 THEN {<<>>}
    ELSE LET shorter == NamedSeqs(S, n - 1)
         IN shorter \cup
            {Append(s, m) : <<s, m>> \in
                {p \in shorter \X S :
                    /\ Len(p[1]) = n - 1
                    /\ \A i \in 1..Len(p[1]) : p[1][i].Name # p[2].Name}}

\* strings.ToLower on the names used by the model
ToLower(s) ==
    CASE s = "A" -> "a"
      [] s = "PK" -> "pk"
      [] OTHER -> s

(***************************************************************************)
(* Column, Key and their ordered collections                               *)
(***************************************************************************)
\* *Column: Deprecated stands for DeprecatedActions != nil
Column(name, deprecated, renameTo) ==
    [Name |-> name, Deprecated |-> deprecated, RenameTo |-> renameTo]

\* the nil *Column
NilCol == Column("", FALSE, "")

\* *Key
Key(name, isPrimary, columns) ==
    [Name |-> name, IsPrimary |-> isPrimary, Columns |-> columns]

\* the nil *Key
NilKey == Key("", FALSE, <<>>)

\* Columns.Col / Keys.Key: lookup of a member by name
Lookup(members, name, nil) ==
    IF \E i \in 1..Len(members) : members[i].Name = name
    THEN members[CHOOSE i \in 1..Len(members) : members[i].Name = name]
    ELSE nil

Col(columns, name) == Lookup(columns, name, NilCol)

KeyOf(keys, name) == Lookup(keys, name, NilKey)

\* Columns.Add / Keys.Add: upsert by name, replacing in place or appending
CollectionAdd(members, m) ==
    IF \E i \in 1..Len(members) : members[i].Name = m.Name
    THEN [i \in 1..Len(members) |->
             IF members[i].Name = m.Name THEN m ELSE members[i]]
    ELSE Append(members, m)

\* Columns.Expr().Query(): the textual column list
ColumnsExprQuery(names) == names

ColumnNames(columns) == [i \in 1..Len(columns) |-> columns[i].Name]

\* Key.IsPrimary
IsPrimary(key) == key.IsPrimary

\* *Table
Table(columns, keys) == [Columns |-> columns, Keys |-> keys]

\* Table.AddCol
AddCol(t, d) ==
    IF d = NilCol THEN t
    ELSE [t EXCEPT !.Columns = CollectionAdd(t.Columns, d)]

(***************************************************************************)
(* Dialect: every operation yields an opaque SQL expression                *)
(***************************************************************************)
SqlExpr(op, name, to) == [op |-> op, name |-> name, to |-> to]

AddColumn(col) == SqlExpr("AddColumn", col.Name, "")
DropColumn(col) == SqlExpr("DropColumn", col.Name, "")
ModifyColumn(col) == SqlExpr("ModifyColumn", col.Name, "")
RenameColumn(col, target) == SqlExpr("RenameColumn", col.Name, target.Name)
AddIndex(key) == SqlExpr("AddIndex", key.Name, "")
DropIndex(key) == SqlExpr("DropIndex", key.Name, "")

(***************************************************************************)
(* Table.Diff                                                              *)
(***************************************************************************)
\* state threaded through the two passes of Diff
DiffState(exprList, prevTable, indexes, panicked) ==
    [exprList |-> exprList, prevTable |-> prevTable,
     indexes |-> indexes, panicked |-> panicked]

Emit(st, e) == [st EXCEPT !.exprList = Append(@, e)]

\* DiffRename dropping the column under its old name instead of the previous
\* column registered under the rename target
DiffRenameDropsOld(t, st, col, renameTo) ==
    LET prevCol == Col(st.prevTable.Columns, renameTo)
        dropped == IF prevCol # NilCol
                   THEN Emit(st, DropColumn(col))
                   ELSE st
        targetCol == Col(t.Columns, renameTo)
    IN IF targetCol = NilCol
       THEN [dropped EXCEPT !.panicked = TRUE]
       ELSE [Emit(dropped, RenameColumn(col, targetCol))
               EXCEPT !.prevTable = AddCol(@, targetCol)]

\* DiffRename skipping an undeclared rename target instead of panicking
DiffRenameNoPanic(t, st, col, renameTo) ==
    LET prevCol == Col(st.prevTable.Columns, renameTo)
        dropped == IF prevCol # NilCol
                   THEN Emit(st, DropColumn(prevCol))
                   ELSE st
        targetCol == Col(t.Columns, renameTo)
    IN IF targetCol = NilCol
       THEN dropped
       ELSE [Emit(dropped, RenameColumn(col, targetCol))
               EXCEPT !.prevTable = AddCol(@, targetCol)]

\* the rename branch of the column callback: col is in prevTable and carries
\* the rename target renameTo
DiffRename(t, st, col, renameTo) ==
    LET prevCol == Col(st.prevTable.Columns, renameTo)
        dropped == IF prevCol # NilCol
                   THEN Emit(st, DropColumn(prevCol))
                   ELSE st
        targetCol == Col(t.Columns, renameTo)
    IN IF targetCol = NilCol
       THEN [dropped EXCEPT !.panicked = TRUE]
       ELSE [Emit(dropped, RenameColumn(col, targetCol))
               EXCEPT !.prevTable = AddCol(@, targetCol)]

\* body of the callback of t.Columns.Range
DiffColumn(t, st, col) ==
    IF Col(st.prevTable.Columns, col.Name) # NilCol
    THEN LET currentCol == Col(t.Columns, col.Name) IN
         IF currentCol # NilCol
         THEN IF currentCol.Deprecated
              THEN IF currentCol.RenameTo # ""
                   THEN DiffRename(t, st, col, currentCol.RenameTo)
                   ELSE Emit(st, DropColumn(col))
              ELSE Emit(st, ModifyColumn(col))
         ELSE Emit(st, DropColumn(col))
    ELSE IF ~col.Deprecated
         THEN Emit(st, AddColumn(col))
         ELSE st

\* t.Columns.Range(...): the column pass, which a panic cuts short
RECURSIVE DiffColumns(_, _, _)
DiffColumns(t, st, i) ==
    IF i > Len(t.Columns) \/ st.panicked THEN st
    ELSE DiffColumns(t, DiffColumn(t, st, t.Columns[i]), i + 1)

\* body of the callback of t.Keys.Range
DiffKey(dialect, st, key) ==
    LET name == IF IsPrimary(key) THEN dialect ELSE key.Name
        seen == [st EXCEPT !.indexes = @ \cup {name}]
        prevKey == KeyOf(st.prevTable.Keys, name)
    IN IF prevKey = NilKey
       THEN Emit(seen, AddIndex(key))
       ELSE IF /\ ~IsPrimary(key)
               /\ ColumnsExprQuery(key.Columns) #
                     ColumnsExprQuery(ColumnNames(st.prevTable.Columns))
            THEN Emit(Emit(seen, DropIndex(key)), AddIndex(key))
            ELSE seen

RECURSIVE DiffKeys(_, _, _, _)
DiffKeys(t, dialect, st, i) ==
    IF i > Len(t.Keys) THEN st
    ELSE DiffKeys(t, dialect, DiffKey(dialect, st, t.Keys[i]), i + 1)

\* body of the callback of prevTable.Keys.Range
DiffPrevKey(st, key) ==
    IF ToLower(key.Name) \notin st.indexes
    THEN Emit(st, DropIndex(key))
    ELSE st

RECURSIVE DiffPrevKeys(_, _)
DiffPrevKeys(st, i) ==
    IF i > Len(st.prevTable.Keys) THEN st
    ELSE DiffPrevKeys(DiffPrevKey(st, st.prevTable.Keys[i]), i + 1)

\* t.Diff(prevTable, dialect); dialect is the value of PrimaryKeyName()
TableDiff(t, prevTable, dialect) ==
    LET cols == DiffColumns(t, DiffState(<<>>, prevTable, {}, FALSE), 1)
    IN IF cols.panicked THEN cols
       ELSE DiffPrevKeys(DiffKeys(t, dialect, cols, 1), 1)

(***************************************************************************)
(* Tables: the registry                                                    *)
(***************************************************************************)
\* a registered *Table, as far as the registry reads it
RegTable(name, modelName) == [Name |-> name, ModelName |-> modelName]

\* the nil *Table
NilTable == RegTable("", "")

TableNamesSet == {"users", "orders"}
ModelNamesSet == {"", "User"}
RegTables == {RegTable(n, m) : n \in TableNamesSet, m \in ModelNamesSet}

\* a map with one more binding
Put(map, k, v) == [x \in DOMAIN map \cup {k} |-> IF x = k THEN v ELSE map[x]]

\* delete(map, k)
Delete(map, k) == [x \in DOMAIN map \ {k} |-> map[x]]

\* list.Remove(e)
ListRemove(list, e) == SelectSeq(list, LAMBDA x : x # e)

\* the registry: l is the list of elements, vals the Value of every element
\* ever pushed, tables and models the two maps to elements
Registry(list, values, byName, byModel) ==
    [l |-> list, vals |-> values, tables |-> byName, models |-> byModel]

\* Tables.Remove
TablesRemove(reg, name) ==
    IF name \in DOMAIN reg.tables
    THEN [reg EXCEPT !.l = ListRemove(@, reg.tables[name]),
                     !.tables = Delete(@, name)]
    ELSE reg

\* TablesAddOne pushing a new element without removing the stale one
TablesAddOneNoRemove(reg, tab) ==
    IF tab # NilTable
    THEN LET e == Len(reg.vals) + 1
             pushed == [reg EXCEPT !.l = Append(@, e),
                                   !.vals = Append(@, tab),
                                   !.tables = Put(@, tab.Name, e)]
         IN IF tab.ModelName # ""
            THEN [pushed EXCEPT !.models = Put(@, tab.ModelName, e)]
            ELSE pushed
    ELSE reg

\* one iteration of the loop of Tables.Add
TablesAddOne(reg, tab) ==
    IF tab # NilTable
    THEN LET cleared == IF tab.Name \in DOMAIN reg.tables
                        THEN TablesRemove(reg, tab.Name)
                        ELSE reg
             e == Len(cleared.vals) + 1
             pushed == [cleared EXCEPT !.l = Append(@, e),
                                       !.vals = Append(@, tab),
                                       !.tables = Put(@, tab.Name, e)]
         IN IF tab.ModelName # ""
            THEN [pushed EXCEPT !.models = Put(@, tab.ModelName, e)]
            ELSE pushed
    ELSE reg

\* Tables.Add(tabs...)
RECURSIVE TablesAdd(_, _)
TablesAdd(reg, tabs) ==
    IF tabs = <<>> THEN reg
    ELSE TablesAdd(TablesAddOne(reg, Head(tabs)), Tail(tabs))

\* Tables.Table
TablesTable(reg, tableName) ==
    IF tableName \in DOMAIN reg.tables
    THEN reg.vals[reg.tables[tableName]]
    ELSE NilTable

\* Tables.Model
TablesModel(reg, structName) ==
    IF structName \in DOMAIN reg.models
    THEN reg.vals[reg.models[structName]]
    ELSE NilTable

\* Tables.Range: the tables handed to the callback, in order
TablesRange(reg) == [i \in 1..Len(reg.l) |-> reg.vals[reg.l[i]]]

\* Tables.TableNames
TableNames(reg) == [i \in 1..Len(reg.l) |-> TablesRange(reg)[i].Name]

(***************************************************************************)
(* loggerConn: the events each call sends to its log span                  *)
(***************************************************************************)
\* what the wrapped connection returns: no error, an error that is not a
\* *pq.Error, a *pq.Error with code 23505, another *pq.Error
Outcomes == {"ok", "error", "pq23505", "pqOther"}

\* loggerConn.QueryContext
QueryContext(outcome) ==
    <<"Start">>
    \o (IF outcome # "ok"
        THEN IF outcome = "error" THEN <<"Error">> ELSE <<"Warn">>
        ELSE <<"Debug">>)
    \o <<"End">>

\* loggerConn.ExecContext
ExecContext(outcome) ==
    <<"Start">>
    \o (IF outcome # "ok"
        THEN IF outcome = "error" THEN <<"Error">>
             ELSE IF outcome = "pq23505" THEN <<"Warn">>
             ELSE <<"Error">>
        ELSE <<"Debug", "End">>)

(***************************************************************************)
(* Inputs of Diff                                                          *)
(***************************************************************************)
ColNames == {"x", "r"}

\* columns as the current schema declares them: live, deprecated, or
\* deprecated with a rename target ("z" is never declared)
CurColumn ==
    {Column(n, FALSE, "") : n \in ColNames}
    \cup {Column(n, TRUE, "") : n \in ColNames}
    \cup {Column("x", TRUE, "r"), Column("x", TRUE, "z"), Column("r", TRUE, "z")}

\* columns as introspection finds them
PrevColumn == {Column(n, FALSE, "") : n \in ColNames}

CurKey == {Key("a", FALSE, <<"x">>), Key("A", FALSE, <<"x">>),
           Key("pk", TRUE, <<"x">>)}

PrevKey == CurKey \cup {Key("PK", TRUE, <<"x">>)}

\* values PrimaryKeyName() may have
PrimaryKeyNames == {"pk", "PK"}

\* a key is declared over columns of its table
KeysOverColumns(t) ==
    \A i \in 1..Len(t.Keys) :
        Range(t.Keys[i].Columns) \subseteq Range(ColumnNames(t.Columns))

CurTables ==
    {t \in {Table(c, k) : c \in NamedSeqs(CurColumn, Cardinality(ColNames)),
                          k \in NamedSeqs(CurKey, MaxKeys)} :
        KeysOverColumns(t)}

PrevTables ==
    {t \in {Table(c, k) : c \in NamedSeqs(PrevColumn, Cardinality(ColNames)),
                          k \in NamedSeqs(PrevKey, MaxKeys)} :
        KeysOverColumns(t)}

(***************************************************************************)
(* State machine                                                           *)
(***************************************************************************)
EmptyRegistry == Registry(<<>>, <<>>, <<>>, <<>>)

reg == Registry(l, vals, tables, models)

RegistryInit ==
    /\ l = <<>> /\ vals = <<>> /\ tables = <<>> /\ models = <<>>
    /\ hist = <<>>

DiffIdle ==
    /\ cur = Table(<<>>, <<>>) /\ prev = Table(<<>>, <<>>)
    /\ pkName = "pk" /\ runs = <<>> /\ pc = "ready"

\* a current table, a previous table and a dialect, before any Diff
DiffInit ==
    /\ cur \in CurTables
    /\ prev \in PrevTables \cup {cur}
    /\ pkName \in PrimaryKeyNames
    /\ runs = <<>>
    /\ pc = "ready"

\* cur.Diff(prev, pkName); a panic ends the program
Diff ==
    /\ pc = "ready"
    /\ Len(runs) < MaxRuns
    /\ LET r == TableDiff(cur, prev, pkName) IN
        /\ runs' = Append(runs, [prevTable |-> prev,
                                 exprList |-> IF r.panicked THEN <<>>
                                              ELSE r.exprList,
                                 panicked |-> r.panicked])
        /\ prev' = r.prevTable
        /\ pc' = IF r.panicked THEN "panicked" ELSE "ready"
    /\ UNCHANGED <<cur, pkName, regVars, calls>>

\* tables.Add(tabs...)
Add ==
    /\ Len(hist) < MaxOps
    /\ \E tabs \in {<<t>> : t \in RegTables \cup {NilTable}}
                   \cup {<<t, u>> : t \in RegTables, u \in RegTables} :
        LET r == TablesAdd(reg, tabs) IN
        /\ l' = r.l /\ vals' = r.vals
        /\ tables' = r.tables /\ models' = r.models
        /\ hist' = Append(hist, [op |-> "Add", tabs |-> tabs, name |-> ""])
    /\ UNCHANGED <<diffVars, calls>>

\* tables.Remove(name)
Remove ==
    /\ Len(hist) < MaxOps
    /\ \E name \in TableNamesSet :
        LET r == TablesRemove(reg, name) IN
        /\ l' = r.l /\ vals' = r.vals
        /\ tables' = r.tables /\ models' = r.models
        /\ hist' = Append(hist, [op |-> "Remove", tabs |-> <<>>, name |-> name])
    /\ UNCHANGED <<diffVars, calls>>

\* c.QueryContext(...)
Query ==
    /\ Len(calls) < MaxCalls
    /\ \E outcome \in Outcomes :
        calls' = Append(calls, [fn |-> "Query", outcome |-> outcome,
                                events |-> QueryContext(outcome)])
    /\ UNCHANGED <<diffVars, regVars>>

\* c.ExecContext(...)
Exec ==
    /\ Len(calls) < MaxCalls
    /\ \E outcome \in Outcomes :
        calls' = Append(calls, [fn |-> "Exec", outcome |-> outcome,
                                events |-> ExecContext(outcome)])
    /\ UNCHANGED <<diffVars, regVars>>

Init == DiffIdle /\ RegistryInit /\ calls = <<>>

\* the diff engine on every pair of tables
InitDiff == DiffInit /\ RegistryInit /\ calls = <<>>
NextDiff == Diff
SpecDiff == InitDiff /\ [][NextDiff]_vars

\* the registry
NextTables == Add \/ Remove
SpecTables == Init /\ [][NextTables]_vars

\* the logging connection
NextConn == Query \/ Exec
SpecConn == Init /\ [][NextConn]_vars

(***************************************************************************)
(* Vocabulary of the properties                                            *)
(***************************************************************************)
Count(seq, e) == Cardinality({i \in 1..Len(seq) : seq[i] = e})

CountOp(seq, op) == Cardinality({i \in 1..Len(seq) : seq[i].op = op})

Names(members) == {members[i].Name : i \in 1..Len(members)}

\* the runs of Diff that returned a plan
Returned == {i \in 1..Len(runs) : ~runs[i].panicked}

\* the name under which the index pass looks a current key up
NormalizedName(key) == IF key.IsPrimary THEN pkName ELSE key.Name

\* the names registered in the previous table when the i-th current column
\* is visited: those of the previous table as passed in, and the rename
\* targets of the earlier columns that were themselves registered
RECURSIVE RegisteredAt(_, _)
RegisteredAt(p0, i) ==
    IF i = 1 THEN Names(p0.Columns)
    ELSE LET before == RegisteredAt(p0, i - 1)
             c == cur.Columns[i - 1]
         IN IF c.Name \in before /\ c.RenameTo # ""
            THEN before \cup {c.RenameTo}
            ELSE before

\* the DropIndex operations that end a plan: those of the removed indexes
RECURSIVE TrailingDrops(_)
TrailingDrops(ops) ==
    IF ops # <<>> /\ ops[Len(ops)].op = "DropIndex"
    THEN TrailingDrops(SubSeq(ops, 1, Len(ops) - 1)) \cup {ops[Len(ops)]}
    ELSE {}

\* a previous key whose name some visited name equals, ignoring case
VisitedIgnoringCase(key) ==
    \E k \in Range(cur.Keys) : ToLower(NormalizedName(k)) = ToLower(key.Name)

(***************************************************************************)
(* C1. Self-diff: diffing a table against an identical copy of itself      *)
(* returns exactly one ModifyColumn per non-deprecated column, no          *)
(* AddColumn, no DropColumn and no AddIndex or DropIndex.                  *)
(***************************************************************************)
C1_SelfDiff ==
    \A i \in Returned :
        runs[i].prevTable = cur =>
            LET ops == runs[i].exprList IN
            /\ \A c \in Range(cur.Columns) :
                   ~c.Deprecated => Count(ops, ModifyColumn(c)) = 1
            /\ CountOp(ops, "ModifyColumn") =
                   Cardinality({c \in Range(cur.Columns) : ~c.Deprecated})
            /\ CountOp(ops, "AddColumn") = 0
            /\ CountOp(ops, "DropColumn") = 0
            /\ CountOp(ops, "AddIndex") = 0
            /\ CountOp(ops, "DropIndex") = 0

(***************************************************************************)
(* C2. Rename: a current column X that exists in previous and has a        *)
(* rename target R declared in current yields exactly one                  *)
(* RenameColumn(X -> R), no ModifyColumn(X) and no AddColumn(X).  As        *)
(* claimed, the rename is preceded by a DropColumn of the previous column  *)
(* found under the old name X.                                             *)
(***************************************************************************)
RenameCase(i, j) ==
    /\ i \in Returned
    /\ j \in 1..Len(cur.Columns)
    /\ cur.Columns[j].Name \in Names(runs[i].prevTable.Columns)
    /\ cur.Columns[j].RenameTo # ""
    /\ cur.Columns[j].RenameTo \in Names(cur.Columns)

RenameCommon(ops, x, target) ==
    /\ Count(ops, RenameColumn(x, target)) = 1
    /\ Count(ops, ModifyColumn(x)) = 0
    /\ Count(ops, AddColumn(x)) = 0

C2_RenameDropsOldName ==
    \A i \in 1..Len(runs) : \A j \in 1..Len(cur.Columns) :
        RenameCase(i, j) =>
            LET ops == runs[i].exprList
                x == cur.Columns[j]
                target == Col(cur.Columns, x.RenameTo)
            IN /\ RenameCommon(ops, x, target)
               /\ \E p \in 2..Len(ops) :
                      /\ ops[p] = RenameColumn(x, target)
                      /\ ops[p - 1] = DropColumn(x)

\* C2 as amended: the DropColumn is that of the previous column found under
\* the rename target R when X is visited, and there is none if R is not
\* found there.
C2_RenameDropsTarget ==
    \A i \in 1..Len(runs) : \A j \in 1..Len(cur.Columns) :
        RenameCase(i, j) =>
            LET ops == runs[i].exprList
                x == cur.Columns[j]
                target == Col(cur.Columns, x.RenameTo)
                found == x.RenameTo \in RegisteredAt(runs[i].prevTable, j)
            IN /\ RenameCommon(ops, x, target)
               /\ \E p \in 1..Len(ops) :
                      /\ ops[p] = RenameColumn(x, target)
                      /\ IF found
                         THEN p > 1 /\ ops[p - 1] = DropColumn(target)
                         ELSE \A q \in 1..(p - 1) : ops[q] # DropColumn(target)

\* a rename whose target is found in previous, so that a column is dropped
C2_Witness ==
    /\ Len(runs) = 1
    /\ \E j \in 1..Len(cur.Columns) :
          /\ RenameCase(1, j)
          /\ cur.Columns[j].RenameTo \in Names(runs[1].prevTable.Columns)
          /\ DropColumn(Col(cur.Columns, cur.Columns[j].RenameTo))
                \in Range(runs[1].exprList)

(***************************************************************************)
(* C3. Determinism: two successive invocations of Diff with the same       *)
(* current table, previous table and dialect return the same operations    *)
(* in the same order.                                                      *)
(***************************************************************************)
C3_Determinism ==
    \A i \in Returned : \A k \in Returned :
        runs[i].exprList = runs[k].exprList

(***************************************************************************)
(* C4. Diff panics, returning no plan, if and only if some column of the   *)
(* current table declares a non-empty rename target that is not a column   *)
(* of the current table.                                                   *)
(***************************************************************************)
Undeclared(c) == c.RenameTo # "" /\ c.RenameTo \notin Names(cur.Columns)

C4_PanicIffUndeclared ==
    \A i \in 1..Len(runs) :
        /\ runs[i].panicked <=> \E c \in Range(cur.Columns) : Undeclared(c)
        /\ runs[i].panicked => runs[i].exprList = <<>>

\* C4 as amended: Diff panics, returning no plan, if and only if some column
\* of the current table that is registered in previous when it is visited
\* (it is a column of previous, or the rename target of an earlier column
\* that was registered) declares a non-empty rename target that is not a
\* column of the current table.
C4_PanicIffUndeclaredInPrev ==
    \A i \in 1..Len(runs) :
        /\ runs[i].panicked <=>
              \E j \in 1..Len(cur.Columns) :
                  /\ Undeclared(cur.Columns[j])
                  /\ cur.Columns[j].Name \in RegisteredAt(runs[i].prevTable, j)
        /\ runs[i].panicked => runs[i].exprList = <<>>
        /\ runs[i].panicked <=> (pc = "panicked" /\ i = Len(runs))

\* a panic on a column that an earlier rename registered in previous
C4_Witness ==
    /\ pc = "panicked"
    /\ Len(runs) = 1
    /\ \E j \in 1..Len(cur.Columns) : Undeclared(cur.Columns[j])
    /\ \A j \in 1..Len(cur.Columns) :
          Undeclared(cur.Columns[j])
              => cur.Columns[j].Name \notin Names(runs[1].prevTable.Columns)

(***************************************************************************)
(* C5. Index symmetric difference: exactly one AddIndex for each current   *)
(* key whose normalized name has no key in previous, exactly one DropIndex *)
(* for each previous key whose name no current key visited, and no index   *)
(* operation for a primary key that previous holds under the canonical     *)
(* primary-key name.                                                       *)
(***************************************************************************)
C5_IndexSymmetricDifference ==
    \A i \in Returned :
        LET ops == runs[i].exprList
            p0 == runs[i].prevTable
        IN /\ \A k \in Range(cur.Keys) :
                  KeyOf(p0.Keys, NormalizedName(k)) = NilKey
                      => Count(ops, AddIndex(k)) = 1
           /\ \A p \in Range(p0.Keys) :
                  ~VisitedIgnoringCase(p) => Count(ops, DropIndex(p)) = 1
           /\ \A k \in Range(cur.Keys) :
                  (k.IsPrimary /\ KeyOf(p0.Keys, pkName) # NilKey)
                      => /\ Count(ops, AddIndex(k)) = 0
                         /\ Count(ops, DropIndex(KeyOf(p0.Keys, pkName))) = 0

(***************************************************************************)
(* C6. Registry removal is complete: every table that Model finds is one   *)
(* that Range yields.                                                      *)
(***************************************************************************)
C6_ModelIsRegistered ==
    \A m \in DOMAIN models : models[m] \in Range(l)

(***************************************************************************)
(* C7. Registry upsert: Range yields each table name at most once,         *)
(* Table(name) is the table most recently added under that name, and the   *)
(* iteration order is the order of each name's most recent Add.            *)
(***************************************************************************)
\* the history as single events: one per table added, one per Remove
RECURSIVE Events(_)
Events(h) ==
    IF h = <<>> THEN <<>>
    ELSE LET e == h[Len(h)]
             init == Events(SubSeq(h, 1, Len(h) - 1))
         IN IF e.op = "Remove"
            THEN Append(init, [op |-> "Remove", name |-> e.name, tab |-> NilTable])
            ELSE init \o [k \in 1..Len(e.tabs) |->
                             [op |-> "Add", name |-> e.tabs[k].Name,
                              tab |-> e.tabs[k]]]

AddsOf(ev, n) == {k \in 1..Len(ev) : ev[k].op = "Add" /\ ev[k].name = n}

Max(S) == CHOOSE x \in S : \A y \in S : y <= x

\* the names whose latest event is an Add
LiveNames(ev) ==
    {n \in TableNamesSet :
        /\ AddsOf(ev, n) # {}
        /\ \A k \in 1..Len(ev) :
              (ev[k].op = "Remove" /\ ev[k].name = n) => k < Max(AddsOf(ev, n))}

C7_Upsert ==
    LET ev == Events(hist)
        names == TableNames(reg)
    IN /\ \A i \in 1..Len(names) : \A j \in 1..Len(names) :
              i < j => /\ names[i] # names[j]
                       /\ Max(AddsOf(ev, names[i])) < Max(AddsOf(ev, names[j]))
       /\ Range(names) = LiveNames(ev)
       /\ \A n \in LiveNames(ev) :
              TablesTable(reg, n) = ev[Max(AddsOf(ev, n))].tab
       /\ \A n \in TableNamesSet \ LiveNames(ev) :
              TablesTable(reg, n) = NilTable

\* a name added a second time, with a different table, after another name
C7_Witness ==
    LET ev == Events(hist) IN
    /\ \A k \in 1..Len(ev) : ev[k].op = "Add"
    /\ Len(l) = 2
    /\ \E n \in TableNamesSet :
          /\ Cardinality(AddsOf(ev, n)) >= 2
          /\ TableNames(reg)[2] = n
          /\ \E a \in AddsOf(ev, n) : \E k \in 1..Len(ev) :
                /\ ev[a].tab # TablesTable(reg, n)
                /\ ev[k].name # n
                /\ a < k /\ k < Max(AddsOf(ev, n))

(***************************************************************************)
(* C8. Removed-index detection is case-insensitive: the plan ends with     *)
(* DropIndex(previousKey) exactly for the previous keys whose name equals  *)
(* no visited name, ignoring letter case.                                  *)
(***************************************************************************)
C8_DropIgnoresCase ==
    \A i \in Returned : \A p \in Range(runs[i].prevTable.Keys) :
        DropIndex(p) \in TrailingDrops(runs[i].exprList)
            <=> ~VisitedIgnoringCase(p)

(***************************************************************************)
(* C9. Rename is independent of declaration order: when X, present in      *)
(* previous, is renamed to R, a live column of current that previous       *)
(* lacks, no plan holds both AddColumn(R) and RenameColumn(X -> R).        *)
(***************************************************************************)
C9_NoAddOfRenameTarget ==
    \A i \in 1..Len(runs) : \A j \in 1..Len(cur.Columns) :
        LET x == cur.Columns[j]
            target == Col(cur.Columns, x.RenameTo)
        IN (/\ RenameCase(i, j)
            /\ ~target.Deprecated
            /\ target.Name \notin Names(runs[i].prevTable.Columns))
           => ~(/\ AddColumn(target) \in Range(runs[i].exprList)
                /\ RenameColumn(x, target) \in Range(runs[i].exprList))

(***************************************************************************)
(* C10. Every log span opened by QueryContext or ExecContext is closed by  *)
(* exactly one End before the call returns, whatever the outcome.          *)
(***************************************************************************)
C10_SpanClosedOnce ==
    \A i \in 1..Len(calls) :
        LET ev == calls[i].events IN
        /\ Count(ev, "Start") = 1 /\ ev[1] = "Start"
        /\ Count(ev, "End") = 1 /\ ev[Len(ev)] = "End"

====
